---- MODULE Spec2Model ----
(***************************************************************************)
(* A model of the Dog rule engine of src/server/py/dog.py (class Dog).     *)
(*                                                                         *)
(* The game object is the variable `dog`; its field `state` is Dog.state, *)
(* a GameState.  Each method of Dog is an operator over a "run" record     *)
(*     [state |-> GameState, exc |-> exception raised or "none",           *)
(*      out |-> the lines printed so far]                                  *)
(* so that a method that raises keeps the mutations made before the raise, *)
(* as the Python object does.  Suits are written "S","H","D","C" for the   *)
(* code's spade, heart, diamond and club characters; the joker's suit is   *)
(* the empty string, as in the code.                                       *)
(***************************************************************************)
EXTENDS Integers, Sequences, FiniteSets, TLC

VARIABLES
    dog,          \* the Dog object after its last call, as a run record
    last_op,      \* the last operation run on the game object
    last_action,  \* the argument of the last apply_action call
    calls_left,   \* number of calls the model still makes on the game object
    seven_hist,   \* history of a partial 7 move: the board before it
    checks,       \* number of direct calls of a method that reads the game
                  \* (win check, get_list_action) made one after the other
    exch          \* history of a card exchange: the hands before it, the picks

vars == <<dog, last_op, last_action, calls_left, seven_hist, checks, exch>>

\* Dog.state
state == dog.state

\* the exception the last call raised, "none" if it returned
exc == dog.exc

\* what the last call printed (the lines the model follows)
out == dog.out

----------------------------------------------------------------------------
(* Bounds of the model *)

\* Longest sequence of calls explored from a freshly constructed game.
MaxCalls == 10

\* Longest sequence of calls explored from a fixture state.
MaxFixtureCalls == 2

\* Number of cards of the hand (the first ones) a player may choose from in the
\* card exchange.
MaxExchangeChoices == 2

\* Number of cards of the piles (draw and discard pile together) of a round
\* fixture whose deal replenishes: every order random.shuffle can leave them
\* in is explored.
MaxShuffled == 8

\* Longest sequence of calls explored from a round fixture with low piles.
MaxDealCalls == 1

\* Largest round number for which the hand-size schedule is evaluated.
MaxScheduleRound == 12

\* Number of apply_action(None) calls made on a fresh game when every player
\* folds every turn.
MaxFoldCalls == 26

\* Number of apply_action calls of a longer game played with folds, the first
\* card in the exchange and marble moves.
MaxLongCalls == 18

\* Number of calls (apply_action, get_list_action) made where the calls of
\* get_list_action are followed.
MaxReadCalls == 3

----------------------------------------------------------------------------
(* Cards, actions *)

\* Optional[int] = None of Action.pos_from / Action.pos_to
NoPos == -2

\* Optional[Card] = None (Action.card_swap, GameState.card_active)
NoCard == [suit |-> "None", rank |-> "None"]

Card(s, r) == [suit |-> s, rank |-> r]

Action(c, f, t, sw) == [card |-> c, pos_from |-> f, pos_to |-> t, card_swap |-> sw]

\* apply_action(None)
NoneAction == Action(NoCard, NoPos, NoPos, NoCard)

LIST_SUIT == <<"S", "H", "D", "C">>

LIST_RANK == <<"2", "3", "4", "5", "6", "7", "8", "9", "10", "J", "Q", "K", "A", "JKR">>

JKR == Card("", "JKR")

\* The 55 cards of one copy of the deck: rank by rank, the four suits of each
\* rank in LIST_SUIT order, then three jokers.
HalfDeck ==
    [i \in 1..55 |->
        IF i <= 52 THEN Card(LIST_SUIT[((i - 1) % 4) + 1], LIST_RANK[((i - 1) \div 4) + 1])
        ELSE JKR]

LIST_CARD == HalfDeck \o HalfDeck

\* str.isdigit() on a rank
IsDigit(rank) == rank \in {"2", "3", "4", "5", "6", "7", "8", "9", "10"}

\* int(card.rank) for a rank of digits
RankInt(rank) ==
    CASE rank = "2" -> 2 [] rank = "3" -> 3 [] rank = "4" -> 4 [] rank = "5" -> 5
      [] rank = "6" -> 6 [] rank = "7" -> 7 [] rank = "8" -> 8 [] rank = "9" -> 9
      [] rank = "10" -> 10

cnt_player == 4

Players == 0..(cnt_player - 1)

Marbles == 0..3

KENNEL_POSITIONS == [i \in Players |-> {64 + 8 * i + k : k \in 0..3}]

FINISH_POSITIONS == [i \in Players |-> {68 + 8 * i + k : k \in 0..3}]

START_POSITIONS == [i \in Players |-> 16 * i]

----------------------------------------------------------------------------
(* Python list helpers *)

\* seq[:n]
Take(seq, n) == SubSeq(seq, 1, IF n < Len(seq) THEN n ELSE Len(seq))

\* seq[n:]
Drop(seq, n) == SubSeq(seq, (IF n < Len(seq) THEN n ELSE Len(seq)) + 1, Len(seq))

\* x in seq
Contains(seq, x) == \E i \in 1..Len(seq) : seq[i] = x

\* list.remove(x): drops the first element equal to x
Remove(seq, x) ==
    LET i == CHOOSE j \in 1..Len(seq) : seq[j] = x /\ \A k \in 1..(j - 1) : seq[k] # x
    IN  SubSeq(seq, 1, i - 1) \o SubSeq(seq, i + 1, Len(seq))

\* The concatenation of f(seq[1]), ..., f(seq[n]): a for loop extending a list
ConcatMap(f(_), seq) ==
    LET F[i \in 0..Len(seq)] == IF i = 0 THEN <<>> ELSE F[i - 1] \o f(seq[i])
    IN  F[Len(seq)]

\* The first occurrence of every element, in order: the keys of a dict built
\* from the list
RECURSIVE Dedupe(_)
Dedupe(seq) ==
    IF Len(seq) <= 1 THEN seq
    ELSE LET half == Len(seq) \div 2
             left == Dedupe(SubSeq(seq, 1, half))
             right == Dedupe(SubSeq(seq, half + 1, Len(seq)))
             seen == {left[i] : i \in 1..Len(left)}
         IN  left \o SelectSeq(right, LAMBDA x : x \notin seen)

\* The outcome of a random.shuffle that makes no swap
KeepOrder == <<>>

\* x[i], x[j] = x[j], x[i], with the indices of Python (from 0)
Swap(x, i, j) == [x EXCEPT ![i + 1] = x[j + 1], ![j + 1] = x[i + 1]]

\* The loop of random.shuffle from index i down to 1: x[i] is swapped with
\* x[j], j = randbelow(i + 1) being draws[i] (i itself where draws is shorter)
RECURSIVE ShuffleFrom(_, _, _)
ShuffleFrom(x, draws, i) ==
    IF i < 1 THEN x
    ELSE ShuffleFrom(Swap(x, i, IF i <= Len(draws) THEN draws[i] ELSE i), draws, i - 1)

\* random.shuffle(seq): for i in reversed(range(1, len(seq))) the element i is
\* swapped with element randbelow(i + 1). The outcome is given by the random
\* numbers drawn, draws[i] in 0 .. i; every permutation of seq is the outcome
\* of exactly one sequence of draws.
Shuffle(seq, draws) == ShuffleFrom(seq, draws, Len(seq) - 1)

\* All sequences of draws of a shuffle of n elements: draws[i] in 0 .. i for
\* i = 1 .. n - 1, which makes n! sequences
RECURSIVE AllDraws(_)
AllDraws(n) ==
    IF n <= 1 THEN {<<>>}
    ELSE { Append(d, j) : d \in AllDraws(n - 1), j \in 0..(n - 1) }

\* The outcomes of a shuffle of n elements: every sequence of draws
ShuffleOutcomes(n) == AllDraws(n)

\* The outcomes of the shuffle of a deal of num_cards cards each in state s:
\* the deal shuffles only when it replenishes, and then the draw pile
\* extended by the discard pile
DealOutcomes(s, num_cards) ==
    IF Len(s.list_card_draw) < num_cards * s.cnt_player
    THEN ShuffleOutcomes(Len(s.list_card_draw) + Len(s.list_card_discard))
    ELSE {KeepOrder}

Max(a, b) == IF a >= b THEN a ELSE b

----------------------------------------------------------------------------
(* Runs *)

Ok(s) == [state |-> s, exc |-> "none", out |-> <<>>]

Raise(r, e) == [r EXCEPT !.exc = e]

Say(r, line) == [r EXCEPT !.out = Append(@, line)]

\* Sequencing: the rest of a method runs only if nothing was raised so far
Then(r, rest(_)) == IF r.exc # "none" THEN r ELSE rest(r)

\* The marbles of all players as (player, marble) pairs in iteration order
MarbleIds == [i \in 1..16 |-> <<(i - 1) \div 4, (i - 1) % 4>>]

MarbleAt(s, id) == s.list_player[id[1]].list_marble[id[2]]

HandSizes(s) ==
    Len(s.list_player[0].list_card) + Len(s.list_player[1].list_card)
    + Len(s.list_player[2].list_card) + Len(s.list_player[3].list_card)

----------------------------------------------------------------------------
(* Dealing *)

\* DealFront with the slice that shortens the draw pile left out: the hands
\* are dealt, the dealt cards stay in the draw pile
DealFront_KeepDraw(s, n) ==
    [s EXCEPT !.list_player =
                  [p \in Players |->
                      [s.list_player[p] EXCEPT
                          !.list_card = SubSeq(s.list_card_draw, p * n + 1, (p + 1) * n)]]]

\* The hands dealt by deal_cards: player p takes the next n cards of the front
\* of the draw pile
DealFront(s, n) ==
    [s EXCEPT !.list_player =
                  [p \in Players |->
                      [s.list_player[p] EXCEPT
                          !.list_card = SubSeq(s.list_card_draw, p * n + 1, (p + 1) * n)]],
              !.list_card_draw = Drop(s.list_card_draw, cnt_player * n)]

\* The hands dealt by give_cards: player p pops n cards off the end of the
\* draw pile, one by one
DealBack(s, n) ==
    LET L == Len(s.list_card_draw)
    IN  [s EXCEPT !.list_player =
                      [p \in Players |->
                          [s.list_player[p] EXCEPT
                              !.list_card = [j \in 1..n |-> s.list_card_draw[L - p * n + 1 - j]]]],
                  !.list_card_draw = Take(s.list_card_draw, L - cnt_player * n)]

\* The replenishing that leaves the discard pile as it is
Replenish_KeepDiscard(s, k) ==
    [s EXCEPT !.list_card_draw = Shuffle(s.list_card_draw \o s.list_card_discard, k)]

\* The discard pile is put under the draw pile and the draw pile shuffled
Replenish(s, k) ==
    [s EXCEPT !.list_card_draw = Shuffle(s.list_card_draw \o s.list_card_discard, k),
              !.list_card_discard = <<>>]

\* calculate_card without the modulo: the hand size never returns to 6
calculate_card_NoCycle(round) == Max(6 - (round - 1), 2)

calculate_card(round) == Max(6 - ((round - 1) % 5), 2)

\* The outcomes of the shuffle of apply_action(None) in state s: only the fold
\* of the last seat of a round deals, the hands of the next round
FoldOutcomes(s) ==
    IF (s.idx_player_active + 1) % s.cnt_player = s.idx_player_started
    THEN DealOutcomes(s, calculate_card(s.cnt_round + 1)) ELSE {KeepOrder}

deal_cards(r, k) ==
    LET s == r.state
        num_cards == Max(6 - ((s.cnt_round - 1) % 5), 2)
        total_needed_cards == num_cards * s.cnt_player
        s1 == IF Len(s.list_card_draw) < total_needed_cards THEN Replenish(s, k) ELSE s
    IN  IF Len(s1.list_card_draw) < total_needed_cards
        THEN Raise([r EXCEPT !.state = s1], "ValueError")
        ELSE Say([r EXCEPT !.state = DealFront(s1, num_cards)], "After dealing")

give_cards(r, num_cards, k) ==
    LET s == r.state
        total_needed_cards == num_cards * s.cnt_player
        s1 == IF Len(s.list_card_draw) < total_needed_cards THEN Replenish(s, k) ELSE s
    IN  IF Len(s1.list_card_draw) < total_needed_cards
        THEN Raise([r EXCEPT !.state = s1], "ValueError")
        ELSE Say([r EXCEPT !.state = DealBack(s1, num_cards)], "Dealt")

----------------------------------------------------------------------------
(* Construction *)

\* f"Player {i + 1}"
PlayerName(i) == <<"Player 1", "Player 2", "Player 3", "Player 4">>[i + 1]

\* Dog.__init__, with `started` the outcome of random.randint(0, 3)
Dog_init(started) ==
    LET s0 == [cnt_player |-> cnt_player,
               phase |-> "running",
               cnt_round |-> 1,
               bool_card_exchanged |-> FALSE,
               idx_player_started |-> started,
               idx_player_active |-> started,
               list_player |->
                   [i \in Players |->
                       [name |-> PlayerName(i),
                        list_card |-> <<>>,
                        list_marble |-> [m \in Marbles |-> [pos |-> -1, is_save |-> FALSE]]]],
               list_card_draw |-> LIST_CARD,
               list_card_discard |-> <<>>,
               card_active |-> NoCard]
        r == deal_cards(Ok(s0), KeepOrder)
    IN  [r EXCEPT !.state.phase = "running"]

----------------------------------------------------------------------------
(* Turn and round progress *)

finalize_turn(r) ==
    LET s == r.state
        nxt == (s.idx_player_active + 1) % s.cnt_player
        s1 == [s EXCEPT !.card_active = NoCard, !.idx_player_active = nxt]
    IN  IF nxt = s.idx_player_started
        THEN \* cnt_round is raised, then distribute_round_cards, which Dog
             \* does not define, is called
             Raise([r EXCEPT !.state = [s1 EXCEPT !.cnt_round = @ + 1]], "AttributeError")
        ELSE [r EXCEPT !.state = s1]

\* impossible_action that leaves cnt_round alone when the turn wraps
impossible_action_KeepRound(r, k) ==
    LET s == r.state
        nxt == (s.idx_player_active + 1) % s.cnt_player
        s1 == [s EXCEPT !.idx_player_active = nxt]
    IN  IF nxt = s.idx_player_started
        THEN Then(give_cards([r EXCEPT !.state = s1],
                             calculate_card(s.cnt_round + 1), k),
                  LAMBDA r3 : Say([r3 EXCEPT !.state.idx_player_active =
                                                 (@ + 1) % s.cnt_player],
                                  "Round completed"))
        ELSE Say([r EXCEPT !.state = s1], "Round completed")

impossible_action(r, k) ==
    LET s == r.state
        nxt == (s.idx_player_active + 1) % s.cnt_player
        s1 == [s EXCEPT !.idx_player_active = nxt]
    IN  IF nxt = s.idx_player_started
        THEN Then(give_cards([r EXCEPT !.state = [s1 EXCEPT !.cnt_round = @ + 1]],
                             calculate_card(s.cnt_round + 1), k),
                  LAMBDA r3 : Say([r3 EXCEPT !.state.idx_player_active =
                                                 (@ + 1) % s.cnt_player],
                                  "Round completed"))
        ELSE Say([r EXCEPT !.state = s1], "Round completed")

\* The exchange step that hands the card on without taking it out of the hand
process_card_exchange_KeepCard(r, p, action) ==
    LET s == r.state
        a == s.idx_player_active
        partner == (a + 2) % s.cnt_player
        s1 == IF Contains(s.list_player[p].list_card, action.card)
              THEN [s EXCEPT !.list_player[partner].list_card = Append(@, action.card)]
              ELSE s
        nxt == (a + 1) % s.cnt_player
        s2 == [s1 EXCEPT !.idx_player_active = nxt]
    IN  [r EXCEPT !.state =
            IF nxt = s.idx_player_started THEN [s2 EXCEPT !.bool_card_exchanged = TRUE] ELSE s2]

\* Dog.process_card_exchange(player, action), player being list_player[p]
process_card_exchange(r, p, action) ==
    LET s == r.state
        a == s.idx_player_active
        partner == (a + 2) % s.cnt_player
        s1 == IF Contains(s.list_player[p].list_card, action.card)
              THEN [s EXCEPT !.list_player[p].list_card = Remove(@, action.card),
                             !.list_player[partner].list_card = Append(@, action.card)]
              ELSE s
        nxt == (a + 1) % s.cnt_player
        s2 == [s1 EXCEPT !.idx_player_active = nxt]
    IN  [r EXCEPT !.state =
            IF nxt = s.idx_player_started THEN [s2 EXCEPT !.bool_card_exchanged = TRUE] ELSE s2]

----------------------------------------------------------------------------
(* Win check *)

\* all(marble.pos in range(92, 96) for player in team for marble in ...)
TeamIn92To95(s, team) ==
    \A p \in team : \A m \in Marbles : s.list_player[p].list_marble[m].pos \in 92..95

\* A win check that flips the phase of a won game
check_for_game_winner_Toggles(r) ==
    LET other == IF r.state.phase = "finished" THEN "running" ELSE "finished"
    IN  IF TeamIn92To95(r.state, {0, 2})
        THEN Say([r EXCEPT !.state.phase = other], "Team 1 wins!")
        ELSE IF TeamIn92To95(r.state, {1, 3})
        THEN Say([r EXCEPT !.state.phase = other], "Team 2 wins!")
        ELSE r

check_for_game_winner(r) ==
    IF TeamIn92To95(r.state, {0, 2})
    THEN Say([r EXCEPT !.state.phase = "finished"], "Team 1 wins!")
    ELSE IF TeamIn92To95(r.state, {1, 3})
    THEN Say([r EXCEPT !.state.phase = "finished"], "Team 2 wins!")
    ELSE r

ensure_player1_marble_at_12(r) ==
    LET ms == r.state.list_player[0].list_marble
    IN  IF (\E m \in Marbles : ms[m].pos = 12) \/ ~(\E m \in Marbles : ms[m].pos = -1)
        THEN r
        ELSE LET first == CHOOSE m \in Marbles :
                              ms[m].pos = -1 /\ \A m2 \in 0..(m - 1) : ms[m2].pos # -1
             IN  Say([r EXCEPT !.state.list_player[0].list_marble[first].pos = 12],
                     "placed on position 12")

----------------------------------------------------------------------------
(* Action generation *)

\* The blocking check run over the marbles of the active player only
CheckIfSaveMarbleBetween_OwnOnly(s, current_position, destination) ==
    \E m \in Marbles :
        LET marble == s.list_player[s.idx_player_active].list_marble[m]
        IN  /\ marble.is_save
            /\ marble.pos # -1
            /\ IF current_position < destination
               THEN current_position < marble.pos /\ marble.pos <= destination
               ELSE marble.pos > current_position \/ marble.pos <= destination

\* The blocking check with the test of is_save left out: every marble on the
\* board blocks
CheckIfSaveMarbleBetween_AnyMarble(s, current_position, destination) ==
    \E p \in Players : \E m \in Marbles :
        LET marble == s.list_player[p].list_marble[m]
        IN  /\ marble.pos # -1
            /\ IF current_position < destination
               THEN current_position < marble.pos /\ marble.pos <= destination
               ELSE marble.pos > current_position \/ marble.pos <= destination

\* Whether some marble with is_save stands after current_position and up to
\* destination (or, for destination <= current_position, after the one or up
\* to the other)
CheckIfSaveMarbleBetween(s, current_position, destination) ==
    \E p \in Players : \E m \in Marbles :
        LET marble == s.list_player[p].list_marble[m]
        IN  /\ marble.is_save
            /\ marble.pos # -1
            /\ IF current_position < destination
               THEN current_position < marble.pos /\ marble.pos <= destination
               ELSE marble.pos > current_position \/ marble.pos <= destination

\* The sequence of a player's marbles, in list order
MarbleSeq(s, p) == [i \in 1..4 |-> s.list_player[p].list_marble[i - 1]]

\* A joker's actions: the kennel exit, then the cards it may stand for
JokerActions(s, card) ==
    <<Action(card, 64, 0, NoCard)>>
    \o (IF s.cnt_round = 0
        THEN ConcatMap(LAMBDA suit : <<Action(card, NoPos, NoPos, Card(suit, "A")),
                                       Action(card, NoPos, NoPos, Card(suit, "K"))>>,
                       LIST_SUIT)
        ELSE ConcatMap(LAMBDA suit :
                           ConcatMap(LAMBDA rank : <<Action(card, NoPos, NoPos, Card(suit, rank))>>,
                                     SubSeq(LIST_RANK, 1, Len(LIST_RANK) - 1)),
                       LIST_SUIT))

\* The actions of a card that is no joker, marble by marble
MoveActions(s, card) ==
    LET a == s.idx_player_active
        ForMarble(marble) ==
            IF marble.pos = -1 /\ card.rank \in {"A", "K"}
            THEN IF \E m2 \in Marbles : s.list_player[a].list_marble[m2].pos = 0
                 THEN <<>>
                 ELSE <<Action(card, 64, 0, NoCard)>>
            ELSE IF marble.pos >= 0 /\ IsDigit(card.rank)
            THEN LET new_pos == (marble.pos + RankInt(card.rank)) % 96
                 IN  IF CheckIfSaveMarbleBetween(s, marble.pos, new_pos)
                     THEN <<>>
                     ELSE <<Action(card, marble.pos, new_pos, NoCard)>>
            ELSE <<>>
    IN  ConcatMap(ForMarble, MarbleSeq(s, a))

\* The positions of the marbles of the players other than the active one
\* (compared as PlayerState values) that are on the board and not safe
OpponentPositions(s) ==
    LET a == s.idx_player_active
        ForOpponent(o) ==
            IF s.list_player[o] # s.list_player[a]
            THEN ConcatMap(LAMBDA opp_marble :
                               IF opp_marble.pos >= 0 /\ ~opp_marble.is_save
                               THEN <<opp_marble.pos>> ELSE <<>>,
                           MarbleSeq(s, o))
            ELSE <<>>
    IN  ConcatMap(ForOpponent, <<0, 1, 2, 3>>)

JackActions(s, card) ==
    LET a == s.idx_player_active
        own == MarbleSeq(s, a)
        player_positions == ConcatMap(LAMBDA m : IF m.pos >= 0 THEN <<m.pos>> ELSE <<>>, own)
        opponent_positions == OpponentPositions(s)
        with_opponents ==
            ConcatMap(LAMBDA p_pos :
                          ConcatMap(LAMBDA o_pos : <<Action(card, p_pos, o_pos, NoCard),
                                                     Action(card, o_pos, p_pos, NoCard)>>,
                                    opponent_positions),
                      player_positions)
        among_own ==
            ConcatMap(LAMBDA marble_1 :
                          IF marble_1.pos >= 0
                          THEN ConcatMap(LAMBDA marble_2 :
                                             IF marble_2.pos >= 0 /\ marble_1 # marble_2
                                             THEN <<Action(card, marble_1.pos, marble_2.pos, NoCard),
                                                    Action(card, marble_2.pos, marble_1.pos, NoCard)>>
                                             ELSE <<>>,
                                         own)
                          ELSE <<>>,
                      own)
    IN  with_opponents \o (IF Len(opponent_positions) = 0 THEN among_own ELSE <<>>)

\* The run of get_list_action as it starts in game state s: `result` is the
\* local list `actions`, empty at first, and the value returned in the end
StartActions(s) == [state |-> s, exc |-> "none", out |-> <<>>, result |-> <<>>]

\* actions.append(...) for the actions of the list `more`, one after the other
AppendActions(r, more) == [r EXCEPT !.result = @ \o more]

\* The loop body that notes the card it is working on in card_active
CardStep_MarksActive(r, card) ==
    LET r0 == [r EXCEPT !.state.card_active = card]
        r1 == IF card.rank = "JKR"
              THEN AppendActions(r0, JokerActions(r0.state, card))
              ELSE AppendActions(r0, MoveActions(r0.state, card))
    IN  IF card.rank = "J" THEN AppendActions(r1, JackActions(r1.state, card)) ELSE r1

\* The body of the loop over the hand for one card: the joker branch or the
\* marble loop, then the Jack branch, each reading the state of the run
CardStep(r, card) ==
    LET r1 == IF card.rank = "JKR"
              THEN AppendActions(r, JokerActions(r.state, card))
              ELSE AppendActions(r, MoveActions(r.state, card))
    IN  IF card.rank = "J" THEN AppendActions(r1, JackActions(r1.state, card)) ELSE r1

\* for card in active_player.list_card, from the i-th card on; a is the index
\* of active_player, whose hand is read as the run has it
RECURSIVE CardLoop(_, _, _)
CardLoop(r, a, i) ==
    IF i > Len(r.state.list_player[a].list_card) THEN r
    ELSE CardLoop(CardStep(r, r.state.list_player[a].list_card[i]), a, i + 1)

\* A call of Dog.get_list_action in game state s, as a run: the state of the
\* run is the state the method leaves, `result` the list it returns
get_list_action_call(s) ==
    LET r == StartActions(s)
        a == r.state.idx_player_active
        hand == r.state.list_player[a].list_card
    IN  IF ~r.state.bool_card_exchanged
        THEN AppendActions(r, [i \in 1..Len(hand) |-> Action(hand[i], NoPos, NoPos, NoCard)])
        ELSE LET r2 == CardLoop(r, a, 1)
             IN  [r2 EXCEPT !.result = Dedupe(@)]

\* Dog.get_list_action: the list it returns, in order
get_list_action(s) == get_list_action_call(s).result

----------------------------------------------------------------------------
(* Applying an action *)

\* next((m for m in player.list_marble if m.pos == pos), None): the index of
\* the first marble of player p at pos, -1 when there is none
FirstMarbleAt(s, p, pos) ==
    IF \E m \in Marbles : s.list_player[p].list_marble[m].pos = pos
    THEN CHOOSE m \in Marbles :
             /\ s.list_player[p].list_marble[m].pos = pos
             /\ \A m2 \in 0..(m - 1) : s.list_player[p].list_marble[m2].pos # pos
    ELSE -1

\* The first marble at pos over all players in list order, as a
\* (player, marble) pair; <<-1, -1>> when there is none
FirstMarbleOfAllAt(s, pos) ==
    IF \E i \in 1..16 : MarbleAt(s, MarbleIds[i]).pos = pos
    THEN MarbleIds[CHOOSE i \in 1..16 :
                       /\ MarbleAt(s, MarbleIds[i]).pos = pos
                       /\ \A j \in 1..(i - 1) : MarbleAt(s, MarbleIds[j]).pos # pos]
    ELSE <<-1, -1>>

valid_finish_move(marble, move) ==
    IF marble.pos >= 92
    THEN 92 <= marble.pos + move /\ marble.pos + move < 96
    ELSE TRUE

finish_overtaking(s, marble, move) ==
    /\ marble.pos >= 92
    /\ \E m \in Marbles :
           LET other == s.list_player[s.idx_player_active].list_marble[m]
           IN  marble.pos + move > other.pos /\ other.pos >= 92

\* The card leaves the hand for the discard pile; list.remove raises
\* ValueError when the card is not in the hand
PlayCard(r, card) ==
    LET a == r.state.idx_player_active
    IN  IF Contains(r.state.list_player[a].list_card, card)
        THEN [r EXCEPT !.state.list_player[a].list_card = Remove(@, card),
                       !.state.list_card_discard = Append(@, card)]
        ELSE Raise(r, "ValueError")

\* The JOKER branch of apply_action
ApplyJokerSwap(r, action) ==
    PlayCard([r EXCEPT !.state.card_active = action.card_swap], action.card)

\* The JACK branch of apply_action
ApplyJack(r, action) ==
    LET s == r.state
        a == s.idx_player_active
        from == FirstMarbleAt(s, a, action.pos_from)
        to == FirstMarbleOfAllAt(s, action.pos_to)
        s1 == IF from # -1 /\ to[1] # -1
              THEN LET s_from == [s EXCEPT !.list_player[a].list_marble[from].pos = action.pos_to]
                   IN  IF to = <<a, from>> THEN s
                       ELSE [s_from EXCEPT !.list_player[to[1]].list_marble[to[2]].pos =
                                               action.pos_from]
              ELSE s
    IN  Then(PlayCard([r EXCEPT !.state = s1], action.card),
             LAMBDA r1 : [r1 EXCEPT !.state.card_active = NoCard])

\* The move out of the kennel: every marble of another player on pos_to is
\* sent to position 72
MoveOutOfKennel(r, action) ==
    LET s == r.state
        a == s.idx_player_active
        m == FirstMarbleAt(s, a, -1)
    IN  IF m = -1 THEN Raise(r, "StopIteration")
        ELSE [r EXCEPT !.state.list_player =
                 [p \in Players |->
                     [s.list_player[p] EXCEPT !.list_marble =
                         [k \in Marbles |->
                             IF p = a
                             THEN IF k = m THEN [pos |-> action.pos_to, is_save |-> TRUE]
                                  ELSE s.list_player[p].list_marble[k]
                             ELSE IF s.list_player[p].list_marble[k].pos = action.pos_to
                                  THEN [pos |-> 72, is_save |-> FALSE]
                                  ELSE s.list_player[p].list_marble[k]]]]]

\* The normal move: the marble is put on pos_to before the finish checks
NormalMove(r, action) ==
    LET s == r.state
        a == s.idx_player_active
        m == FirstMarbleAt(s, a, action.pos_from)
    IN  IF m = -1 THEN Raise(r, "StopIteration")
        ELSE LET r1 == [r EXCEPT !.state.list_player[a].list_marble[m].pos = action.pos_to]
                 marble == r1.state.list_player[a].list_marble[m]
             IN  IF ~valid_finish_move(marble, action.pos_to) THEN Raise(r1, "ValueError")
                 ELSE IF finish_overtaking(r1.state, marble, action.pos_to)
                      THEN Raise(r1, "ValueError")
                      ELSE r1

\* The branch of apply_action for a card of the hand that is neither a joker
\* swap nor a Jack move
ApplyNormalCard(r, action) ==
    Then(IF action.pos_from \in {-1, 64} /\ action.pos_to # NoPos
         THEN MoveOutOfKennel(r, action)
         ELSE IF action.pos_from # NoPos /\ action.pos_to # NoPos
         THEN NormalMove(r, action)
         ELSE r,
         LAMBDA r1 : PlayCard([r1 EXCEPT !.state.card_active = action.card], action.card))

\* Dog.apply_action; k is the outcome of random.shuffle, should a deal shuffle
apply_action(s, action, k) ==
    LET r == Ok(s)
        a == s.idx_player_active
    IN  IF action = NoneAction
        THEN impossible_action(Say([r EXCEPT !.state.list_player[a].list_card = <<>>],
                                   "Folding cards"), k)
        ELSE IF ~s.bool_card_exchanged
        THEN process_card_exchange(r, a, action)
        ELSE Then(Then(Then(IF action.card.rank = "JKR" /\ action.card_swap # NoCard
                            THEN ApplyJokerSwap(r, action)
                            ELSE IF action.card.rank = "J" /\ action.pos_from # NoPos
                                    /\ action.pos_to # NoPos
                            THEN ApplyJack(r, action)
                            ELSE IF Contains(s.list_player[a].list_card, action.card)
                            THEN ApplyNormalCard(r, action)
                            ELSE r,
                            check_for_game_winner),
                       LAMBDA r2 : IF r2.state.idx_player_active = 0
                                   THEN ensure_player1_marble_at_12(r2) ELSE r2),
                  finalize_turn)

----------------------------------------------------------------------------
(* Methods that apply_action does not call *)

\* Dog.send_opponent_marble_home(position): the first marble found on the
\* position makes the method look up KennelNumbers, a name dog.py does not
\* define
send_opponent_marble_home(r, position) ==
    IF \E p \in Players : \E m \in Marbles :
           r.state.list_player[p].list_marble[m].pos = position
    THEN Raise(r, "NameError")
    ELSE r

\* Dog.start_new_round, called by the __main__ block; k is the outcome of
\* random.shuffle, should deal_cards shuffle
start_new_round(r, k) ==
    LET s == r.state
        started == (s.idx_player_started + 1) % s.cnt_player
    IN  deal_cards([r EXCEPT !.state = [s EXCEPT !.cnt_round = @ + 1,
                                                 !.idx_player_started = started,
                                                 !.idx_player_active = started,
                                                 !.bool_card_exchanged = FALSE,
                                                 !.card_active = NoCard]], k)

reset_card_active(r) == [r EXCEPT !.state.card_active = NoCard]

check_endgame_condition(r) ==
    IF TeamIn92To95(r.state, {0, 2})
    THEN Say([r EXCEPT !.state.phase = "finished"], "Team 1 has won the game!")
    ELSE IF TeamIn92To95(r.state, {1, 3})
    THEN Say([r EXCEPT !.state.phase = "finished"], "Team 2 has won the game!")
    ELSE r

\* player.list_card.remove(card) followed by list_card_discard.append(card),
\* for player p; remove raises ValueError when the card is not in the hand
DiscardFromHand(r, p, card) ==
    IF Contains(r.state.list_player[p].list_card, card)
    THEN [r EXCEPT !.state.list_player[p].list_card = Remove(@, card),
                   !.state.list_card_discard = Append(@, card)]
    ELSE Raise(r, "ValueError")

\* Dog.handle_joker(action, player), player being list_player[p]
handle_joker(r, action, p) ==
    IF action.card_swap # NoCard
    THEN Then(DiscardFromHand([r EXCEPT !.state.card_active = action.card_swap],
                              p, action.card),
              LAMBDA r2 : reset_card_active(Say(r2, "JOKER swapped")))
    ELSE reset_card_active(Say(r, "Invalid JOKER action"))

\* Dog.handle_seven(action, player): can_complete_seven_steps returns True
handle_seven(r, action, p) ==
    LET ms == r.state.list_player[p].list_marble
    IN  IF \E m \in Marbles : ms[m].pos = action.pos_from
        THEN LET first == CHOOSE m \in Marbles :
                              ms[m].pos = action.pos_from
                              /\ \A m2 \in 0..(m - 1) : ms[m2].pos # action.pos_from
             IN  DiscardFromHand(
                     Say([r EXCEPT !.state.list_player[p].list_marble[first].pos =
                                       (@ + 7) % 96,
                                   !.state.card_active = action.card],
                         "moved marble with SEVEN"),
                     p, action.card)
        ELSE reset_card_active(Say(r, "could not complete steps for SEVEN"))

\* Dog.handle_normal_card(action, player)
handle_normal_card(r, action, p) ==
    LET ms == r.state.list_player[p].list_marble
    IN  IF ~Contains(r.state.list_player[p].list_card, action.card)
        THEN r
        ELSE IF (\E m \in Marbles : ms[m].pos = action.pos_from) /\ action.pos_to # NoPos
        THEN LET first == CHOOSE m \in Marbles :
                              ms[m].pos = action.pos_from
                              /\ \A m2 \in 0..(m - 1) : ms[m2].pos # action.pos_from
                 r2 == DiscardFromHand(
                           Say([r EXCEPT !.state.list_player[p].list_marble[first].pos =
                                             action.pos_to],
                               "moved marble"),
                           p, action.card)
             IN  [r2 EXCEPT !.state.card_active = action.card]
        ELSE reset_card_active(Say(r, "Invalid move"))

----------------------------------------------------------------------------
(* Player view *)

\* Dog.get_player_view: the state object itself is returned
get_player_view(s, idx_player) == s

\* RandomPlayer.select_action(state, actions); random.choice picks the k-th
\* action of a list that is not empty
select_action(s, actions, k) ==
    IF Len(actions) > 0
    THEN [result |-> actions[k], exc |-> "none"]
    ELSE [result |-> NoneAction, exc |-> "ValueError"]

----------------------------------------------------------------------------
(* Fixture states: a freshly constructed game changed through get_state and *)
(* set_state, the way the tests of src/test/test_dog.py set up their cases  *)

\* player p's marble m is put on pos
PutMarble(s, p, m, pos, is_save) ==
    [s EXCEPT !.list_player[p].list_marble[m] = [pos |-> pos, is_save |-> is_save]]

\* all four marbles of player p are put on base, base + 1, base + 2, base + 3
PutAll(s, p, base) ==
    [s EXCEPT !.list_player[p].list_marble =
                  [m \in Marbles |-> [pos |-> base + m, is_save |-> FALSE]]]

\* The exchange is over, player a is to move and holds `hand`
InPlay(a, hand) ==
    [Dog_init(a).state EXCEPT !.bool_card_exchanged = TRUE,
                              !.list_player[a].list_card = hand]

FixtureCards == {Card("C", "2"), Card("H", "5"), Card("S", "7"), Card("D", "10")}

\* A marble of player a on a track square, and one other marble (of a or of
\* the next player) up to eleven squares further on, safe or not; past square
\* 63 the other marble is on the track again (wrap) or on squares 64..71
BlockFixtures ==
    { PutMarble(PutMarble(InPlay(a, <<card>>), a, 0, from, FALSE),
                IF own THEN a ELSE (a + 1) % 4, IF own THEN 1 ELSE 0,
                IF wrap THEN (from + d) % 64 ELSE from + d, is_save) :
        a \in {0, 1}, card \in FixtureCards, from \in {10, 60}, own \in BOOLEAN,
        d \in {1, 2, 5, 6, 11}, is_save \in BOOLEAN, wrap \in BOOLEAN }

\* Where the four marbles of a player are put in a win fixture: 0 the kennel
\* (as constructed), 1 the player's own finish lane, 2 the squares 92..95
Placed(s, p, kind) ==
    IF kind = 0 THEN s
    ELSE IF kind = 1 THEN PutAll(s, p, 68 + 8 * p)
    ELSE PutAll(s, p, 92)

WinFixtures ==
    { Placed(Placed(Placed(Placed(InPlay(a, <<Card("C", "2")>>),
                                  0, k[1]), 1, k[2]), 2, k[3]), 3, k[4]) :
        a \in {0, 1}, k \in [1..4 -> 0..2] }

\* The piles of a round fixture: as constructed ("full"), MaxShuffled cards
\* of which half are in the draw pile and the others in the discard pile
\* ("low"), or half as many cards, again in two piles ("short")
Piles(s, kind) ==
    LET total == IF kind = "low" THEN MaxShuffled ELSE MaxShuffled \div 2
        drawn == total \div 2
    IN  IF kind = "full" THEN s
        ELSE [s EXCEPT !.list_card_draw = Take(s.list_card_draw, drawn),
                       !.list_card_discard = SubSeq(s.list_card_draw, drawn + 1, total)]

\* The last player of round r - 1 is to move
RoundFixture(started, r, kind) ==
    Piles([Dog_init(started).state EXCEPT !.cnt_round = r - 1,
                                          !.idx_player_active = (started + 3) % 4],
          kind)

\* The last player of round r - 1 is to move and the piles hold enough cards
\* for round r without the discard pile, or too few cards with it
RoundFixtures ==
    { RoundFixture(started, r, kind) :
        started \in {0, 3}, r \in 1..MaxScheduleRound, kind \in {"full", "short"} }

\* The first round of 2 cards each
SmallRound ==
    CHOOSE r \in 1..MaxScheduleRound :
        calculate_card(r) = 2 /\ \A q \in 1..(r - 1) : calculate_card(q) > 2

\* The last player of the round before SmallRound is to move and the draw
\* pile holds enough cards for the deal only with the discard pile
DealFixtures == { RoundFixture(started, SmallRound, "low") : started \in {0} }

\* A freshly constructed game in which the active player is given a 7 of
\* spades and has the first marble on square 0
SevenFixtures ==
    { PutMarble([Dog_init(started).state EXCEPT
                     !.list_player[started].list_card = Append(@, Card("S", "7"))],
                started, 0, 0, FALSE) :
        started \in {0, 1} }

\* The active player holds an Ace or a King; the marbles are in the kennel as
\* constructed (pos -1) or the first one is on the first kennel square of the
\* player; square 0 is free or holds the first marble of another player
StartFixtures ==
    { LET s1 == InPlay(a, <<card>>)
          s2 == IF on_square THEN PutMarble(s1, a, 0, 64 + 8 * a, FALSE) ELSE s1
      IN  IF o = a THEN s2 ELSE PutMarble(s2, o, 0, 0, FALSE) :
        a \in Players, card \in {Card("S", "A"), Card("H", "K")},
        on_square \in BOOLEAN, o \in Players }

\* The active player holds a Jack and has the first marble on square 5; the
\* next player has the first marble on square 10, safe or not, or in the
\* kennel as constructed, or on square 72 where a kennel exit onto its square
\* has sent it; the active player may have a second marble on square 20
JackFixtures ==
    { LET s1 == PutMarble(InPlay(a, <<Card("S", "J")>>), a, 0, 5, FALSE)
          s2 == IF opp = "none" THEN s1
                ELSE IF opp = "sent_home"
                THEN PutMarble(s1, (a + 1) % 4, 0, 72, FALSE)
                ELSE PutMarble(s1, (a + 1) % 4, 0, 10, opp = "safe")
      IN  IF own2 THEN PutMarble(s2, a, 1, 20, FALSE) ELSE s2 :
        a \in {0, 1}, opp \in {"none", "unsafe", "safe", "sent_home"},
        own2 \in BOOLEAN }

\* The active player holds a joker, in round 0 or 1, with all four marbles
\* in the kennel or all four on the squares 10..13
JokerFixtures ==
    { LET s == [InPlay(a, <<JKR>>) EXCEPT !.cnt_round = r]
      IN  IF on_board THEN PutAll(s, a, 10) ELSE s :
        a \in {0, 1}, r \in {0, 1}, on_board \in BOOLEAN }

\* The active player is the last one of the round (the next seat is
\* idx_player_started), holds one numbered card and has a marble on square 10
LastSeatFixtures ==
    { [PutMarble(InPlay(a, <<card>>), a, 0, 10, FALSE)
          EXCEPT !.idx_player_started = (a + 1) % 4] :
        a \in {0, 3}, card \in {Card("C", "2"), Card("H", "5")} }

\* A card is active: the 2 of clubs of the active hand, or an ace a joker was
\* swapped for; the active player holds two numbered cards and has a marble
\* on square 10
ActiveCardFixtures ==
    { [PutMarble(InPlay(a, <<Card("C", "2"), Card("H", "5")>>), a, 0, 10, FALSE)
          EXCEPT !.card_active = c] :
        a \in {0, 1}, c \in {Card("C", "2"), Card("S", "A")} }

CardFixtures ==
    StartFixtures \cup JackFixtures \cup JokerFixtures \cup LastSeatFixtures
    \cup ActiveCardFixtures

----------------------------------------------------------------------------
(* The state machine *)

\* No 7 move is followed.  Otherwise: the steps asked for so far, the 7 and the
\* square the moved marble was last sent to, the board before the first partial
\* move, and whether the last call asked for more steps than the 7 had left
NoSeven ==
    [pending |-> FALSE, aborted |-> FALSE, exceeded |-> FALSE, steps |-> 0,
     card |-> NoCard, pos |-> NoPos, list_player |-> <<>>]

\* No card exchange is followed
NoExchange == [ok |-> FALSE, pre |-> <<>>, picks |-> <<>>]

\* The card exchange of game state s is followed from its first pick on
StartExchange(s) ==
    IF s.bool_card_exchanged THEN NoExchange
    ELSE [ok |-> TRUE,
          pre |-> [p \in Players |-> s.list_player[p].list_card],
          picks |-> <<>>]

\* A freshly constructed game
Init ==
    \E started \in Players :
        /\ dog = Dog_init(started)
        /\ last_op = "init"
        /\ last_action = NoneAction
        /\ calls_left = MaxCalls
        /\ seven_hist = NoSeven
        /\ checks = 0
        /\ exch = StartExchange(state)

\* A fixture state, or a freshly constructed game
InitFixture ==
    /\ \/ /\ \E s \in BlockFixtures : dog = Ok(s)
          /\ last_op = "set_state"
       \/ /\ \E s \in WinFixtures : dog = Ok(s)
          /\ last_op = "set_state"
       \/ /\ \E s \in RoundFixtures : dog = Ok(s)
          /\ last_op = "set_state"
       \/ /\ \E s \in SevenFixtures : dog = Ok(s)
          /\ last_op = "set_state"
       \/ /\ \E s \in CardFixtures : dog = Ok(s)
          /\ last_op = "set_state"
       \/ /\ \E started \in Players : dog = Dog_init(started)
          /\ last_op = "init"
    /\ last_action = NoneAction
    /\ calls_left = MaxFixtureCalls
    /\ seven_hist = NoSeven
    /\ checks = 0
    /\ exch = StartExchange(state)

\* The call apply_action(action), shuffle outcome k
Apply(action, k, hist) ==
    /\ calls_left > 0
    /\ dog' = apply_action(state, action, k)
    /\ last_op' = "apply_action"
    /\ last_action' = action
    /\ calls_left' = calls_left - 1
    /\ seven_hist' = hist
    /\ checks' = 0
    /\ exch' = IF exch.ok /\ action # NoneAction /\ ~state.bool_card_exchanged
             THEN [exch EXCEPT !.picks = Append(@, <<state.idx_player_active, action.card>>)]
             ELSE NoExchange

\* apply_action(None)
ApplyNone ==
    \E k \in FoldOutcomes(state) :
        Apply(NoneAction, k,
              IF seven_hist.pending
              THEN [seven_hist EXCEPT !.pending = FALSE, !.aborted = TRUE,
                                      !.exceeded = FALSE]
              ELSE NoSeven)

\* The elements of a list
Elements(seq) == {seq[i] : i \in 1..Len(seq)}

\* The actions of get_list_action() the caller chooses from: all of them in
\* play, the first MaxExchangeChoices in the card exchange
ListedChoices(s) ==
    Elements(IF s.bool_card_exchanged THEN get_list_action(s)
             ELSE Take(get_list_action(s), MaxExchangeChoices))

\* apply_action with an action taken from get_list_action()
ApplyListed ==
    \E action \in ListedChoices(state) : Apply(action, KeepOrder, NoSeven)

\* The partial moves of a 7 the caller may ask for: a 7 of the active hand, a
\* marble of the active player that is on the board, 1 to 6 squares ahead
PartialSevenActions(s) ==
    LET a == s.idx_player_active
    IN  { Action(card, s.list_player[a].list_marble[m].pos,
                 s.list_player[a].list_marble[m].pos + c, NoCard) :
            card \in { s.list_player[a].list_card[i] :
                         i \in { j \in 1..Len(s.list_player[a].list_card) :
                                   s.list_player[a].list_card[j].rank = "7" } },
            m \in { n \in Marbles : s.list_player[a].list_marble[n].pos \in 0..63 },
            c \in 1..6 }

\* apply_action with a partial move of a 7
ApplyPartialSeven ==
    \E action \in PartialSevenActions(state) :
        /\ seven_hist.steps + (action.pos_to - action.pos_from) < 7
        /\ Apply(action, KeepOrder,
                 IF seven_hist.pending
                 THEN [seven_hist EXCEPT !.steps = @ + (action.pos_to - action.pos_from),
                                         !.card = action.card,
                                         !.pos = action.pos_to,
                                         !.exceeded = FALSE]
                 ELSE [pending |-> TRUE, aborted |-> FALSE, exceeded |-> FALSE,
                       steps |-> action.pos_to - action.pos_from,
                       card |-> action.card, pos |-> action.pos_to,
                       list_player |-> state.list_player])

\* The moves of a 7 that ask for more steps than the 7 has left: 8 squares for
\* a 7 nobody has moved with yet, and, once partial moves have used some steps,
\* the same 7 moving the same marble on by more than the rest
ExceedingSevenActions(s, hist) ==
    IF hist.pending
    THEN { Action(hist.card, hist.pos, hist.pos + c, NoCard) :
             c \in (8 - hist.steps)..8 }
    ELSE { Action(a.card, a.pos_from, a.pos_from + 8, NoCard) :
             a \in PartialSevenActions(s) }

\* apply_action with a move of a 7 that exceeds the steps the 7 has left
ApplyExceedingSeven ==
    \E action \in ExceedingSevenActions(state, seven_hist) :
        Apply(action, KeepOrder,
              IF seven_hist.pending
              THEN [seven_hist EXCEPT !.exceeded = TRUE]
              ELSE [NoSeven EXCEPT !.exceeded = TRUE])

\* Actions a caller may pass that do not fit the state: the queen of hearts
\* when the active hand does not hold it, as a card to hand on or to move
\* with, and the first card of the hand moving from square 30 when no marble
\* of the active player stands there
InvalidActions(s) ==
    LET a == s.idx_player_active
        hand == s.list_player[a].list_card
    IN  (IF Contains(hand, Card("H", "Q")) THEN {}
         ELSE {Action(Card("H", "Q"), NoPos, NoPos, NoCard),
               Action(Card("H", "Q"), 30, 32, NoCard)})
        \cup (IF hand = <<>> \/ \E m \in Marbles : s.list_player[a].list_marble[m].pos = 30
              THEN {}
              ELSE {Action(hand[1], 30, 32, NoCard)})

\* apply_action with an action that does not fit the state
ApplyInvalid ==
    \E action \in InvalidActions(state) : Apply(action, KeepOrder, NoSeven)

\* A direct call of check_for_game_winner()
CheckWinner ==
    /\ calls_left > 0
    /\ dog' = check_for_game_winner(Ok(state))
    /\ last_op' = "check_for_game_winner"
    /\ last_action' = NoneAction
    /\ calls_left' = calls_left - 1
    /\ seven_hist' = NoSeven
    /\ checks' = checks + 1
    /\ exch' = NoExchange

Next == ApplyNone \/ ApplyListed

NextFixture ==
    \/ ApplyNone
    \/ ApplyListed
    \/ ApplyPartialSeven
    \/ ApplyExceedingSeven
    \/ CheckWinner

\* Every sequence of at most MaxCalls apply_action calls on a fresh game
Spec == Init /\ [][Next]_vars

\* A freshly constructed game on which every player will fold every turn
InitFold ==
    \E started \in Players :
        /\ dog = Dog_init(started)
        /\ last_op = "init"
        /\ last_action = NoneAction
        /\ calls_left = MaxFoldCalls
        /\ seven_hist = NoSeven
        /\ checks = 0
        /\ exch = StartExchange(state)

NextFold == ApplyNone

\* A round fixture, those with low piles included, on which the players fold
InitDeal ==
    /\ \E s \in RoundFixtures \union DealFixtures : dog = Ok(s)
    /\ last_op = "set_state"
    /\ last_action = NoneAction
    /\ calls_left = MaxDealCalls
    /\ seven_hist = NoSeven
    /\ checks = 0
    /\ exch = StartExchange(state)

\* Every sequence of at most MaxFixtureCalls calls on a fixture state
SpecFixture == InitFixture /\ [][NextFixture]_vars

\* MaxFoldCalls calls of apply_action(None) on a fresh game
SpecFold == InitFold /\ [][NextFold]_vars

\* At most MaxDealCalls calls of apply_action(None) on a round fixture
SpecDeal == InitDeal /\ [][NextFold]_vars

\* A card fixture (the card_active ones included) or a fresh game, with the
\* calls of get_list_action followed
InitRead ==
    /\ \/ /\ \E s \in CardFixtures : dog = Ok(s)
          /\ last_op = "set_state"
       \/ /\ \E started \in Players : dog = Dog_init(started)
          /\ last_op = "init"
    /\ last_action = NoneAction
    /\ calls_left = MaxReadCalls
    /\ seven_hist = NoSeven
    /\ checks = 0
    /\ exch = NoExchange

\* A call of get_list_action()
GetListAction ==
    /\ calls_left > 0
    /\ dog' = get_list_action_call(state)
    /\ last_op' = "get_list_action"
    /\ last_action' = NoneAction
    /\ calls_left' = calls_left - 1
    /\ seven_hist' = NoSeven
    /\ checks' = checks + 1
    /\ exch' = NoExchange

NextRead == ApplyNone \/ ApplyListed \/ GetListAction

\* At most MaxReadCalls calls of apply_action and get_list_action
SpecRead == InitRead /\ [][NextRead]_vars

\* A freshly constructed game, for a longer play
InitLong ==
    \E started \in Players :
        /\ dog = Dog_init(started)
        /\ last_op = "init"
        /\ last_action = NoneAction
        /\ calls_left = MaxLongCalls
        /\ seven_hist = NoSeven
        /\ checks = 0
        /\ exch = NoExchange

\* The driver folds, as long as no call has failed
PlayFold ==
    \E k \in FoldOutcomes(state) : exc = "none" /\ Apply(NoneAction, k, NoSeven)

\* The actions of get_list_action() the driver of a longer game chooses from
PlayChoices(s) ==
    IF s.bool_card_exchanged
    THEN {action \in Elements(get_list_action(s)) : action.pos_from # NoPos}
    ELSE Elements(Take(get_list_action(s), 1))

\* The driver applies an action of get_list_action, as long as no call has
\* failed: the first card of the hand in the exchange, a marble move in play
PlayMove ==
    /\ exc = "none"
    /\ \E action \in PlayChoices(state) : Apply(action, KeepOrder, NoSeven)

NextLong == PlayFold \/ PlayMove

\* MaxLongCalls calls of a game in which no call fails
SpecLong == InitLong /\ [][NextLong]_vars

\* A set_state with a win fixture, followed by MaxFixtureCalls calls
InitWin ==
    /\ \E s \in WinFixtures : dog = Ok(s)
    /\ last_op = "set_state"
    /\ last_action = NoneAction
    /\ calls_left = MaxFixtureCalls
    /\ seven_hist = NoSeven
    /\ checks = 0
    /\ exch = NoExchange

NextWin == ApplyNone \/ ApplyListed \/ GetListAction \/ CheckWinner

\* Calls of apply_action, get_list_action and the win check on a win fixture
SpecWin == InitWin /\ [][NextWin]_vars

\* The fixtures the other methods are called on: a team has won while the
\* other team is in the kennel, or player 0 holds a start card
DirectFixtures ==
    { w \in WinFixtures :
        \/ TeamIn92To95(w, {0, 2}) /\ \A p \in {1, 3} : w.list_player[p].list_marble[0].pos = -1
        \/ TeamIn92To95(w, {1, 3}) /\ \A p \in {0, 2} : w.list_player[p].list_marble[0].pos = -1 }
    \cup { s \in StartFixtures : s.idx_player_active = 0 }

\* The hand sizes asked of give_cards in a direct call
DirectHandSizes == {2, 6}

\* The positions asked of send_opponent_marble_home: a square the fixtures put
\* a marble on, the kennel value of a fresh game, and a free square
DirectPositions == {0, -1, 30}

\* A call of a method of the game other than apply_action, leaving the run r
DirectCall(r, op, action) ==
    /\ calls_left > 0
    /\ dog' = r
    /\ last_op' = op
    /\ last_action' = action
    /\ calls_left' = calls_left - 1
    /\ seven_hist' = NoSeven
    /\ checks' = 0
    /\ exch' = NoExchange

\* game.start_new_round()
StartNewRound ==
    \E k \in DealOutcomes(state, calculate_card(state.cnt_round + 1)) :
        DirectCall(start_new_round(Ok(state), k), "start_new_round", NoneAction)

\* game.deal_cards()
DealCards ==
    \E k \in DealOutcomes(state, calculate_card(state.cnt_round)) :
        DirectCall(deal_cards(Ok(state), k), "deal_cards", NoneAction)

\* game.reset_card_active()
ResetCardActive ==
    DirectCall(reset_card_active(Ok(state)), "reset_card_active", NoneAction)

\* game.check_endgame_condition()
CheckEndgame ==
    DirectCall(check_endgame_condition(Ok(state)), "check_endgame_condition", NoneAction)

\* The actions handed to the handle_ methods: those of get_list_action(), and
\* the first card of the active hand played from a square, 30, that may be empty
HandledActions(s) ==
    LET actions == get_list_action(s)
        hand == s.list_player[s.idx_player_active].list_card
    IN  {actions[i] : i \in 1..Len(actions)}
        \cup (IF hand = <<>> THEN {} ELSE {Action(hand[1], 30, 32, NoCard)})

\* game.handle_joker(action, player) for the active player
HandleJoker ==
    \E action \in HandledActions(state) :
        DirectCall(handle_joker(Ok(state), action, state.idx_player_active),
                   "handle_joker", action)

\* game.handle_seven(action, player) for the active player
HandleSeven ==
    \E action \in HandledActions(state) :
        DirectCall(handle_seven(Ok(state), action, state.idx_player_active),
                   "handle_seven", action)

\* game.handle_normal_card(action, player) for the active player
HandleNormalCard ==
    \E action \in HandledActions(state) :
        DirectCall(handle_normal_card(Ok(state), action, state.idx_player_active),
                   "handle_normal_card", action)

\* game.give_cards(num_cards)
GiveCards ==
    \E num_cards \in DirectHandSizes : \E k \in DealOutcomes(state, num_cards) :
        DirectCall(give_cards(Ok(state), num_cards, k), "give_cards", NoneAction)

\* game.impossible_action()
ImpossibleAction ==
    \E k \in FoldOutcomes(state) :
        DirectCall(impossible_action(Ok(state), k), "impossible_action", NoneAction)

\* game.finalize_turn()
FinalizeTurn == DirectCall(finalize_turn(Ok(state)), "finalize_turn", NoneAction)

\* game.process_card_exchange(player, action) for any player of the game
ProcessCardExchange ==
    \E p \in Players : \E action \in HandledActions(state) :
        DirectCall(process_card_exchange(Ok(state), p, action),
                   "process_card_exchange", action)

\* game.ensure_player1_marble_at_12()
EnsurePlayer1MarbleAt12 ==
    DirectCall(ensure_player1_marble_at_12(Ok(state)), "ensure_player1_marble_at_12",
               NoneAction)

\* game.send_opponent_marble_home(position)
SendOpponentMarbleHome ==
    \E position \in DirectPositions :
        DirectCall(send_opponent_marble_home(Ok(state), position),
                   "send_opponent_marble_home", NoneAction)

\* game.set_state(state) with one of the fixture states
SetState ==
    \E s \in DirectFixtures : DirectCall(Ok(s), "set_state", NoneAction)

NextDirect ==
    \/ ApplyNone
    \/ ApplyListed
    \/ GiveCards
    \/ ImpossibleAction
    \/ FinalizeTurn
    \/ ProcessCardExchange
    \/ EnsurePlayer1MarbleAt12
    \/ SendOpponentMarbleHome
    \/ SetState
    \/ StartNewRound
    \/ DealCards
    \/ ResetCardActive
    \/ CheckEndgame
    \/ HandleJoker
    \/ HandleSeven
    \/ HandleNormalCard

\* A fresh game or one of the fixtures above
InitDirect ==
    /\ \/ /\ \E s \in DirectFixtures : dog = Ok(s)
          /\ last_op = "set_state"
       \/ /\ \E started \in Players : dog = Dog_init(started)
          /\ last_op = "init"
    /\ last_action = NoneAction
    /\ calls_left = MaxFixtureCalls
    /\ seven_hist = NoSeven
    /\ checks = 0
    /\ exch = NoExchange

\* At most MaxFixtureCalls calls of the methods of the game, as the __main__
\* block of dog.py makes them on a fresh game
SpecDirect == InitDirect /\ [][NextDirect]_vars

NextInvalid == ApplyNone \/ ApplyListed \/ ApplyInvalid

\* Calls on a fixture state that include actions which do not fit the state
SpecInvalid == InitFixture /\ [][NextInvalid]_vars

----------------------------------------------------------------------------
(* Claims *)

ActiveHand == state.list_player[state.idx_player_active].list_card

AllMarbles == {<<p, m>> : p \in Players, m \in Marbles}

\* C1: in every state reached from a fresh game by apply_action calls, the
\* draw pile, the discard pile and the four hands hold 110 cards together.
C1_Conservation ==
    Len(state.list_card_draw) + Len(state.list_card_discard) + HandSizes(state) = 110

\* C2: a freshly constructed game is RUNNING at round 1, with 4 players of 6
\* cards each, a draw pile of 110 - 24 = 86 cards and an empty discard pile.
C2_FreshGame ==
    last_op = "init" =>
        /\ exc = "none"
        /\ state.phase = "running"
        /\ state.cnt_round = 1
        /\ Cardinality(DOMAIN state.list_player) = 4
        /\ \A p \in DOMAIN state.list_player : Len(state.list_player[p].list_card) = 6
        /\ Len(state.list_card_draw) = 110 - 24
        /\ state.list_card_discard = <<>>

C2_Witness == last_op = "init" /\ HandSizes(state) = 24

\* C3: in a freshly constructed game every marble of player i stands on a
\* kennel square of player i, 64 + 8i .. 64 + 8i + 3, with is_save false.
C3_FreshMarblesInKennel ==
    last_op = "init" =>
        \A p \in Players :
            /\ DOMAIN state.list_player[p].list_marble = Marbles
            /\ \A m \in Marbles :
                   /\ state.list_player[p].list_marble[m].pos \in KENNEL_POSITIONS[p]
                   /\ ~state.list_player[p].list_marble[m].is_save

\* C4: the list get_list_action returns never holds two actions that are
\* equal on card, pos_from, pos_to and card_swap.
C4_NoDuplicateActions ==
    LET actions == get_list_action(state)
    IN  \A i, j \in 1..Len(actions) : i # j => actions[i] # actions[j]

\* C5: while the cards are not exchanged, get_list_action returns card-only
\* actions of cards of the active hand, exactly one for every distinct card
\* of the hand.
C5_ExchangeActions ==
    ~state.bool_card_exchanged =>
        LET actions == get_list_action(state)
        IN  /\ \A i \in 1..Len(actions) :
                   /\ actions[i].pos_from = NoPos
                   /\ actions[i].pos_to = NoPos
                   /\ actions[i].card_swap = NoCard
                   /\ Contains(ActiveHand, actions[i].card)
            /\ \A h \in 1..Len(ActiveHand) :
                   Cardinality({i \in 1..Len(actions) : actions[i].card = ActiveHand[h]}) = 1

\* Some safe marble stands on a track square strictly between square a and
\* the square n further on, on the circular track of 64 squares
SafeMarbleStrictlyBetween(s, a, n) ==
    \E id \in AllMarbles :
        /\ MarbleAt(s, id).is_save
        /\ \E d \in 1..(n - 1) : MarbleAt(s, id).pos = (a + d) % 64

\* The numbered cards of the active hand and the marbles of the active player
\* on the track whose way to the square RankInt further on holds a safe marble
BlockedMoves(s) ==
    { <<card, a>> \in
        { s.list_player[s.idx_player_active].list_card[i] :
            i \in 1..Len(s.list_player[s.idx_player_active].list_card) }
        \X { s.list_player[s.idx_player_active].list_marble[m].pos : m \in Marbles } :
        /\ IsDigit(card.rank)
        /\ a \in 0..63
        /\ SafeMarbleStrictlyBetween(s, a, RankInt(card.rank)) }

\* C6: for a numbered card of value n and a marble of the active player on
\* track square a, a safe marble strictly between a and b = a + n (on the
\* circular track) keeps the action (card, a, b) out of get_list_action.
C6_PathBlocking ==
    \A bm \in BlockedMoves(state) :
        ~Contains(get_list_action(state),
                  Action(bm[1], bm[2], (bm[2] + RankInt(bm[1].rank)) % 64, NoCard))

C6_Witness ==
    /\ state.bool_card_exchanged
    /\ BlockedMoves(state) # {}
    /\ \E bm \in BlockedMoves(state) : bm[2] + RankInt(bm[1].rank) < 64

\* C7: when partial 7 moves of fewer than 7 steps in total are followed by
\* apply_action(None), every marble and every hand is as before the first
\* partial move and no card is active.
C7_SevenAtomicity ==
    seven_hist.aborted =>
        /\ state.list_player = seven_hist.list_player
        /\ state.card_active = NoCard

\* The last call dealt a round
Dealt == exc = "none" /\ (Contains(out, "Dealt") \/ Contains(out, "After dealing"))

\* C8: the hand size of round r is 7 - ((r - 1) mod 5 + 1), and every player
\* holds that many cards right after the deal of round r.
C8_DealSchedule ==
    /\ \A r \in 1..MaxScheduleRound : calculate_card(r) = 7 - (((r - 1) % 5) + 1)
    /\ Dealt =>
           \A p \in Players :
               Len(state.list_player[p].list_card) = 7 - (((state.cnt_round - 1) % 5) + 1)

C8_Witness ==
    /\ last_op = "apply_action"
    /\ Dealt
    /\ state.cnt_round = 10
    /\ \A p \in Players : Len(state.list_player[p].list_card) = 2

\* All 8 marbles of the team are in finish lanes, those of player p in the
\* lane of player p
TeamInOwnFinish(s, team) ==
    \A p \in team : \A m \in Marbles :
        s.list_player[p].list_marble[m].pos \in FINISH_POSITIONS[p]

SomeTeamInOwnFinish(s) == TeamInOwnFinish(s, {0, 2}) \/ TeamInOwnFinish(s, {1, 3})

\* C9: the win check sets phase to FINISHED if and only if all 8 marbles of
\* some team are in finish lanes, each in the lane of its own player.
C9_WinDetection ==
    last_op = "check_for_game_winner" =>
        (state.phase = "finished" <=> SomeTeamInOwnFinish(state))

\* C10: once a team has finished, the first win check sets phase to FINISHED
\* and reports the winner, and a second win check changes nothing.
C10_WinIdempotence ==
    [][last_op' = "check_for_game_winner" =>
          /\ (checks' = 1 /\ SomeTeamInOwnFinish(state)) =>
                 /\ state'.phase = "finished"
                 /\ Contains(out', "Team 1 wins!") \/ Contains(out', "Team 2 wins!")
          /\ checks' = 2 => state' = state]_vars

\* The last call was apply_action(None), made when the cards were exchanged and
\* no partial 7 move was in progress
Folded ==
    /\ last_op' = "apply_action"
    /\ last_action' = NoneAction
    /\ state.bool_card_exchanged
    /\ ~seven_hist.pending

\* C11: with the cards exchanged and no 7 move in progress, apply_action(None)
\* empties the active hand onto the discard pile, which grows by the size of
\* that hand, and advances idx_player_active by exactly 1 modulo 4.
C11_Fold ==
    [][Folded =>
          /\ state'.list_player[state.idx_player_active].list_card = <<>>
          /\ Len(state'.list_card_discard) = Len(state.list_card_discard) + Len(ActiveHand)
          /\ state'.idx_player_active = (state.idx_player_active + 1) % 4]_vars

\* Marble position pos is in the kennel of player p: on one of the player's
\* kennel squares, or -1 as the marbles are constructed
InKennel(p, pos) == pos = -1 \/ pos \in KENNEL_POSITIONS[p]

\* The Aces and Kings of the active hand, when a marble of the active player
\* is in the kennel
StartCards(s) ==
    LET a == s.idx_player_active
    IN  IF \E m \in Marbles : InKennel(a, s.list_player[a].list_marble[m].pos)
        THEN { s.list_player[a].list_card[i] :
                 i \in { j \in 1..Len(s.list_player[a].list_card) :
                           s.list_player[a].list_card[j].rank \in {"A", "K"} } }
        ELSE {}

\* C12: with the cards exchanged, an A or K card c in the active hand and a
\* marble of the active player i in the kennel, get_list_action contains
\* Action(c, 64 + 8i, 16i).
C12_StartAction ==
    state.bool_card_exchanged =>
        \A c \in StartCards(state) :
            Contains(get_list_action(state),
                     Action(c, 64 + 8 * state.idx_player_active,
                            START_POSITIONS[state.idx_player_active], NoCard))

\* Some marble, safe if only_safe, stands on one of the squares p + 1 .. p + n
MarbleOnPath(s, pos, n, only_safe) ==
    \E id \in AllMarbles :
        /\ only_safe => MarbleAt(s, id).is_save
        /\ MarbleAt(s, id).pos \in (pos + 1)..(pos + n)

\* The cards of value 2, 3, 5, 6, 8, 9, 10 of the active hand and the track
\* squares of the active player's marbles from which the squares up to the
\* destination hold no safe marble
FreeMoves(s) ==
    { <<card, pos>> \in
        { s.list_player[s.idx_player_active].list_card[i] :
            i \in 1..Len(s.list_player[s.idx_player_active].list_card) }
        \X { s.list_player[s.idx_player_active].list_marble[m].pos : m \in Marbles } :
        /\ card.rank \in {"2", "3", "5", "6", "8", "9", "10"}
        /\ pos \in 0..63
        /\ ~MarbleOnPath(s, pos, RankInt(card.rank), TRUE) }

\* C13: with the cards exchanged, for a card c of value n in {2,3,5,6,8,9,10}
\* of the active hand and a marble of the active player on track square p
\* with no safe marble on the squares p + 1 .. p + n, get_list_action contains
\* Action(c, p, p + n).
C13_ForwardMoves ==
    state.bool_card_exchanged =>
        \A fm \in FreeMoves(state) :
            Contains(get_list_action(state),
                     Action(fm[1], fm[2], fm[2] + RankInt(fm[1].rank), NoCard))

C13_Witness ==
    /\ state.bool_card_exchanged
    /\ \E fm \in FreeMoves(state) :
           /\ MarbleOnPath(state, fm[2], RankInt(fm[1].rank), FALSE)
           /\ fm[2] + RankInt(fm[1].rank) >= 64

\* Marble m of the active player is the one a start or numbered action with
\* pos_from = from moves: it stands on from, or, for a start action, in the
\* kennel
StandsAt(s, m, from) ==
    LET pos == s.list_player[s.idx_player_active].list_marble[m].pos
    IN  pos = from \/ (from \in {-1, 64} /\ InKennel(s.idx_player_active, pos))

\* The last call applied a start or numbered move of a card of the active
\* hand, with the cards exchanged and a marble of the active player to move
MoveApplied ==
    /\ last_op' = "apply_action"
    /\ state.bool_card_exchanged
    /\ last_action'.pos_from # NoPos
    /\ last_action'.pos_to # NoPos
    /\ last_action'.pos_from # last_action'.pos_to
    /\ last_action'.card.rank \in {"A", "K", "2", "3", "5", "6", "8", "9", "10"}
    /\ Contains(ActiveHand, last_action'.card)
    /\ \E m \in Marbles : StandsAt(state, m, last_action'.pos_from)

\* C14: applying a start or numbered move action (card, pos_from, pos_to)
\* puts the marble that stood at pos_from on pos_to and leaves it with
\* is_save = true.
C14_MoveMarble ==
    [][MoveApplied =>
          \E m \in Marbles :
              /\ StandsAt(state, m, last_action'.pos_from)
              /\ state'.list_player[state.idx_player_active].list_marble[m] =
                     [pos |-> last_action'.pos_to, is_save |-> TRUE]]_vars

\* C15: when a start or numbered move ends on a square that holds another
\* marble, that marble is put on the first kennel square of its owner o,
\* 64 + 8o, with is_save = false.
C15_Capture ==
    [][MoveApplied =>
          \A id \in AllMarbles :
              MarbleAt(state, id).pos = last_action'.pos_to =>
                  MarbleAt(state', id) = [pos |-> 64 + 8 * id[1], is_save |-> FALSE]]_vars

\* The last call applied a Jack action that get_list_action returned
JackApplied ==
    /\ last_op' = "apply_action"
    /\ state.bool_card_exchanged
    /\ last_action'.card.rank = "J"
    /\ last_action'.pos_from # NoPos
    /\ Contains(get_list_action(state), last_action')

\* C16: applying a Jack action (J, pos_from, pos_to) that get_list_action
\* returned, in either direction, exchanges the positions of the marble at
\* pos_from and the marble at pos_to, moves no other marble and discards the
\* Jack.
C16_JackSwap ==
    [][JackApplied =>
          /\ \E x, y \in AllMarbles :
                 /\ x # y
                 /\ MarbleAt(state, x).pos = last_action'.pos_from
                 /\ MarbleAt(state, y).pos = last_action'.pos_to
                 /\ MarbleAt(state', x).pos = last_action'.pos_to
                 /\ MarbleAt(state', y).pos = last_action'.pos_from
                 /\ \A z \in AllMarbles \ {x, y} :
                        MarbleAt(state', z).pos = MarbleAt(state, z).pos
          /\ state'.list_player[state.idx_player_active].list_card =
                 Remove(ActiveHand, last_action'.card)
          /\ state'.list_card_discard =
                 Append(state.list_card_discard, last_action'.card)]_vars

\* The last call applied a joker with card_swap set, the joker being in the
\* active hand and the cards exchanged
JokerApplied ==
    /\ last_op' = "apply_action"
    /\ state.bool_card_exchanged
    /\ last_action'.card.rank = "JKR"
    /\ last_action'.card_swap # NoCard
    /\ Contains(ActiveHand, last_action'.card)

\* C17: applying a JKR action with card_swap set removes the joker from the
\* active hand, leaves card_active equal to card_swap when apply_action
\* returns and does not change idx_player_active.
C17_JokerSubstitution ==
    [][JokerApplied =>
          /\ exc' = "none"
          /\ state'.list_player[state.idx_player_active].list_card =
                 Remove(ActiveHand, last_action'.card)
          /\ state'.card_active = last_action'.card_swap
          /\ state'.idx_player_active = state.idx_player_active]_vars

\* Game state s with the hand of every player other than idx emptied
OthersHidden(s, idx) ==
    [s EXCEPT !.list_player =
                  [p \in Players |->
                      IF p = idx THEN s.list_player[p]
                      ELSE [s.list_player[p] EXCEPT !.list_card = <<>>]]]

\* C18: get_player_view(idx) returns a state in which the hand of every other
\* player is empty and the hand of player idx is unchanged, and two states
\* that differ only in the hands of the other players give the same view.
C18_ViewMasking ==
    \A idx \in Players :
        /\ \A p \in Players \ {idx} :
               get_player_view(state, idx).list_player[p].list_card = <<>>
        /\ get_player_view(state, idx).list_player[idx].list_card =
               state.list_player[idx].list_card
        /\ get_player_view(state, idx) = get_player_view(OthersHidden(state, idx), idx)

\* The number of elements of seq equal to x
Count(seq, x) == Cardinality({i \in 1..Len(seq) : seq[i] = x})

\* seq1 and seq2 hold the same elements the same number of times
SameCards(seq1, seq2) ==
    /\ Len(seq1) = Len(seq2)
    /\ \A i \in 1..Len(seq1) : Count(seq1, seq1[i]) = Count(seq2, seq1[i])

\* The last call applied an exchange action with a card of the active hand
\* while the cards were not exchanged
ExchangeApplied ==
    /\ last_op' = "apply_action"
    /\ last_action' # NoneAction
    /\ ~state.bool_card_exchanged
    /\ Contains(ActiveHand, last_action'.card)

\* C19: while bool_card_exchanged is false, applying an exchange action with a
\* card of the active hand takes exactly one copy of the card out of that
\* hand, changes no marble and advances idx_player_active by 1 modulo 4.
C19_ExchangeStep ==
    [][ExchangeApplied =>
          /\ exc' = "none"
          /\ SameCards(Append(state'.list_player[state.idx_player_active].list_card,
                              last_action'.card),
                       ActiveHand)
          /\ \A id \in AllMarbles : MarbleAt(state', id) = MarbleAt(state, id)
          /\ state'.idx_player_active = (state.idx_player_active + 1) % 4]_vars

C19_Witness ==
    /\ exch.ok
    /\ Len(exch.picks) = 3
    /\ last_op = "apply_action"
    /\ ~state.bool_card_exchanged

\* The card player p picked in the exchange that exch follows, once all four
\* players have picked, the first being the starting player
Pick(p) == exch.picks[((p - state.idx_player_started + 4) % 4) + 1][2]

\* C20: after the four players have each applied one exchange action, every
\* hand is the hand before the exchange less the card picked plus the card
\* the teammate picked from the teammate's hand before the exchange,
\* bool_card_exchanged is true and idx_player_active is idx_player_started;
\* during the exchange no card received in it can be given away, and
\* bool_card_exchanged is false before the fourth exchange action.
C20_ExchangeCompletion ==
    exch.ok =>
        /\ Len(exch.picks) < 4 =>
               /\ ~state.bool_card_exchanged
               /\ \A i \in 1..Len(get_list_action(state)) :
                      Contains(exch.pre[state.idx_player_active],
                               get_list_action(state)[i].card)
        /\ Len(exch.picks) = 4 =>
               /\ state.bool_card_exchanged
               /\ state.idx_player_active = state.idx_player_started
               /\ \A p \in Players :
                      /\ Contains(exch.pre[p], Pick(p))
                      /\ SameCards(state.list_player[p].list_card,
                                   Append(Remove(exch.pre[p], Pick(p)), Pick((p + 2) % 4)))

\* C21: a move of a 7 that asks for more steps than the 7 has left (8 squares
\* when 4 remain, or 8 squares of a fresh 7) is rejected with a ValueError and
\* leaves every marble and every hand as they were.
C21_SevenStepBudget ==
    [][seven_hist'.exceeded =>
          /\ exc' = "ValueError"
          /\ state'.list_player = state.list_player]_vars

\* The last call applied a partial move of a 7: fewer steps than the 7 had left
SevenPartApplied ==
    /\ last_op' = "apply_action"
    /\ seven_hist'.pending
    /\ ~seven_hist'.exceeded

\* C22: a partial move of a 7 that leaves steps over keeps the 7 as
\* card_active, keeps the 7 in the active hand and leaves idx_player_active
\* unchanged: the turn passes only when the steps of the 7 are used up.
C22_SevenProgress ==
    [][SevenPartApplied =>
          /\ state'.card_active = last_action'.card
          /\ state'.idx_player_active = state.idx_player_active
          /\ Contains(state'.list_player[state.idx_player_active].list_card,
                      last_action'.card)]_vars

\* The last call moved a marble of the active player forward with a 7 of the
\* active hand, by the steps the 7 had left at most, with the cards exchanged
SevenMoved ==
    /\ last_op' = "apply_action"
    /\ state.bool_card_exchanged
    /\ ~seven_hist'.exceeded
    /\ last_action'.card.rank = "7"
    /\ last_action'.pos_from \in 0..63
    /\ last_action'.pos_to > last_action'.pos_from
    /\ Contains(ActiveHand, last_action'.card)
    /\ \E m \in Marbles : StandsAt(state, m, last_action'.pos_from)

\* The marbles on the squares pos_from + 1 .. pos_to before the last call
SevenPath ==
    { id \in AllMarbles :
        MarbleAt(state, id).pos \in
            (last_action'.pos_from + 1)..last_action'.pos_to }

\* C23: a move of a 7 from pos_from to pos_to sends the first marble on the
\* squares pos_from + 1 .. pos_to to the first kennel square of its owner o,
\* 64 + 8o, with is_save = false, leaves the other marbles on the path where
\* they are, and ends with the moving marble on pos_to.
C23_SevenDisplacement ==
    [][SevenMoved /\ SevenPath # {} =>
          /\ \E id \in SevenPath :
                 /\ \A j \in SevenPath :
                        MarbleAt(state, id).pos <= MarbleAt(state, j).pos
                 /\ MarbleAt(state', id) =
                        [pos |-> 64 + 8 * id[1], is_save |-> FALSE]
                 /\ \A j \in SevenPath \ {id} :
                        MarbleAt(state', j) = MarbleAt(state, j)
          /\ \E m \in Marbles :
                 /\ StandsAt(state, m, last_action'.pos_from)
                 /\ state'.list_player[state.idx_player_active].list_marble[m].pos =
                        last_action'.pos_to]_vars

\* The last call advanced the turn (it was not an exchange step) and the
\* advance stepped onto the seat of idx_player_started
TurnWrapped ==
    /\ last_op' = "apply_action"
    /\ last_action' = NoneAction \/ state.bool_card_exchanged
    /\ state'.idx_player_active # state.idx_player_active
    /\ (state.idx_player_active + 1) % 4 = state.idx_player_started

\* The game after n calls of apply_action(None) on the game of run r
RECURSIVE FoldTimes(_, _)
FoldTimes(r, n) ==
    IF n = 0 THEN r ELSE FoldTimes(apply_action(r.state, NoneAction, KeepOrder), n - 1)

\* Four calls of apply_action(None) from the first player of the first round,
\* and four more from the first player of the second round, raise cnt_round
\* by 1 each
FourFoldsRaiseRound ==
    \A started \in Players :
        LET r0 == Dog_init(started)
            r4 == FoldTimes(r0, 4)
            r8 == FoldTimes(r4, 4)
        IN  /\ r4.state.cnt_round = r0.state.cnt_round + 1
            /\ r8.state.cnt_round = r4.state.cnt_round + 1

\* C24: along apply_action calls cnt_round never decreases, and it grows, by
\* exactly 1, exactly in the calls whose turn advance steps onto
\* idx_player_started; four folds from a round's first player raise it by 1.
C24_RoundCounter ==
    [][last_op' = "apply_action" =>
          /\ state'.cnt_round >= state.cnt_round
          /\ TurnWrapped <=> state'.cnt_round = state.cnt_round + 1
          /\ ~TurnWrapped => state'.cnt_round = state.cnt_round
          /\ FourFoldsRaiseRound]_vars

\* A fold by the last player of round 1 wrapped the turn to
\* idx_player_started: cnt_round went from 1 to 2 and the round was dealt
C24_Witness ==
    /\ last_op = "apply_action"
    /\ last_action = NoneAction
    /\ Dealt
    /\ state.cnt_round = 2
    /\ state.idx_player_active = (state.idx_player_started + 1) % 4

\* C25: select_action returns a member of the list of actions it is given
\* when the list is not empty, and returns None, without failing, when the
\* list is empty.
C25_RandomPlayer ==
    LET actions == get_list_action(state)
    IN  /\ \A k \in 1..Len(actions) :
               LET sel == select_action(state, actions, k)
               IN  sel.exc = "none" /\ Contains(actions, sel.result)
        /\ actions = <<>> =>
               LET sel == select_action(state, actions, 1)
               IN  sel.exc = "none" /\ sel.result = NoneAction

\* C26: every call that completes a round (its turn advance steps onto
\* idx_player_started) moves idx_player_started on by one seat modulo 4 and
\* leaves bool_card_exchanged false.
C26_RoundBoundary ==
    [][TurnWrapped =>
          /\ state'.idx_player_started = (state.idx_player_started + 1) % 4
          /\ ~state'.bool_card_exchanged]_vars

\* The four hands of game state s, one after the other
AllHands(s) ==
    s.list_player[0].list_card \o s.list_player[1].list_card
    \o s.list_player[2].list_card \o s.list_player[3].list_card

\* The last call was a fold that completed a round, so that the next round,
\* state'.cnt_round, was to be dealt
RoundDue ==
    /\ last_op' = "apply_action"
    /\ last_action' = NoneAction
    /\ (state.idx_player_active + 1) % 4 = state.idx_player_started

\* C27: when a round of n = 7 - ((round - 1) mod 5 + 1) cards is due and the
\* draw pile holds fewer than 4n cards, the discard pile is merged into the
\* draw pile and is empty afterwards; after the deal every hand holds exactly
\* n cards, all taken from the (replenished) draw pile, which has shrunk by
\* exactly 4n cards, and nothing of the former hands is left.
C27_Dealing ==
    [][RoundDue =>
          LET n == 7 - (((state'.cnt_round - 1) % 5) + 1)
              low == Len(state.list_card_draw) < 4 * n
              pile == IF low THEN state.list_card_draw \o state.list_card_discard
                      ELSE state.list_card_draw
          IN  /\ low => state'.list_card_discard = <<>>
              /\ ~low => state'.list_card_discard = state.list_card_discard
              /\ Len(pile) >= 4 * n =>
                     /\ Dealt'
                     /\ \A p \in Players : Len(state'.list_player[p].list_card) = n
                     /\ Len(state'.list_card_draw) = Len(pile) - 4 * n
                     /\ SameCards(state'.list_card_draw \o AllHands(state'), pile)]_vars

\* A round of 2 cards was dealt from a draw pile of 4 cards replenished with
\* the 4 cards of the discard pile, in an order other than the one the two
\* piles had
C27_Witness ==
    /\ last_op = "apply_action"
    /\ last_action = NoneAction
    /\ Dealt
    /\ state.cnt_round = SmallRound
    /\ state.list_card_discard = <<>>
    /\ state.list_card_draw = <<>>
    /\ \A p \in Players : Len(state.list_player[p].list_card) = 2
    /\ AllHands(state) # AllHands(give_cards(Ok(RoundFixture(0, SmallRound, "low")), 2, KeepOrder).state)

\* C28: along apply_action calls on a fresh game, every player folding every
\* turn included, each deal finds enough cards in the draw and discard piles:
\* the ValueError of the dealer for too few cards is never raised.
C28_NoDeckExhaustion ==
    ~(last_op = "apply_action" /\ exc = "ValueError")

\* C29: whenever card_active is set, every action get_list_action returns is
\* an action of that card.
C29_ActiveCardOnly ==
    state.card_active # NoCard =>
        \A i \in 1..Len(get_list_action(state)) :
            get_list_action(state)[i].card = state.card_active

\* The cards the jokers of the active hand may be swapped for, by the actions
\* of get_list_action
JokerSwapTargets ==
    { get_list_action(state)[i].card_swap :
        i \in { j \in 1..Len(get_list_action(state)) :
                  /\ get_list_action(state)[j].card.rank = "JKR"
                  /\ get_list_action(state)[j].card_swap # NoCard } }

\* C30: with a joker in the active hand and the cards exchanged, a move of
\* the joker out of the kennel is offered only if a marble of the active
\* player is in the kennel; while all of the player's marbles are in the
\* kennel the joker may be swapped for exactly the 8 Aces and Kings, and
\* otherwise for exactly the 52 cards that are no joker.
C30_JokerOptions ==
    (state.bool_card_exchanged /\ Contains(ActiveHand, JKR)) =>
        LET own == state.list_player[state.idx_player_active].list_marble
            some_in_kennel ==
                \E m \in Marbles : InKennel(state.idx_player_active, own[m].pos)
            all_in_kennel ==
                \A m \in Marbles : InKennel(state.idx_player_active, own[m].pos)
        IN  /\ (\E i \in 1..Len(get_list_action(state)) :
                   /\ get_list_action(state)[i].card = JKR
                   /\ get_list_action(state)[i].pos_from # NoPos)
                   => some_in_kennel
            /\ all_in_kennel =>
                   JokerSwapTargets =
                       { Card(suit, rank) :
                           suit \in {"S", "H", "D", "C"}, rank \in {"A", "K"} }
            /\ ~all_in_kennel =>
                   JokerSwapTargets =
                       { Card(suit, rank) :
                           suit \in {"S", "H", "D", "C"},
                           rank \in {"2", "3", "4", "5", "6", "7", "8", "9",
                                     "10", "J", "Q", "K", "A"} }

\* The Jack actions get_list_action returns in the current state
JackOffers ==
    { get_list_action(state)[i] :
        i \in { j \in 1..Len(get_list_action(state)) :
                  /\ get_list_action(state)[j].card.rank = "J"
                  /\ get_list_action(state)[j].pos_from # NoPos } }

\* A marble of the active player (own) or of another player stands on pos
MarbleOn(pos, own) ==
    { id \in AllMarbles :
        /\ (id[1] = state.idx_player_active) = own
        /\ MarbleAt(state, id).pos = pos }

\* C31: with the cards exchanged, every Jack action get_list_action returns
\* pairs two squares of the track 0..63, and a marble of another player on
\* one of the two squares is not safe.
C31_JackEligibility ==
    state.bool_card_exchanged =>
        \A act \in JackOffers :
            /\ act.pos_from \in 0..63
            /\ act.pos_to \in 0..63
            /\ \A id \in MarbleOn(act.pos_from, FALSE) \cup MarbleOn(act.pos_to, FALSE) :
                   ~MarbleAt(state, id).is_save

\* A marble of another player is on the track 0..63 and not safe
OpponentQualifies ==
    \E id \in AllMarbles :
        /\ id[1] # state.idx_player_active
        /\ MarbleAt(state, id).pos \in 0..63
        /\ ~MarbleAt(state, id).is_save

\* The swaps of a Jack of the active hand between two marbles of the active
\* player that are on the track, in both directions
OwnSwaps ==
    { Action(ActiveHand[i], state.list_player[state.idx_player_active].list_marble[m1].pos,
             state.list_player[state.idx_player_active].list_marble[m2].pos, NoCard) :
        i \in { j \in 1..Len(ActiveHand) : ActiveHand[j].rank = "J" },
        m1 \in { m \in Marbles :
                   state.list_player[state.idx_player_active].list_marble[m].pos \in 0..63 },
        m2 \in { m \in Marbles :
                   state.list_player[state.idx_player_active].list_marble[m].pos \in 0..63 } }
    \ { Action(ActiveHand[i], pos, pos, NoCard) :
          i \in 1..Len(ActiveHand), pos \in 0..63 }

\* C32: with the cards exchanged, the swaps between two on-track marbles of
\* the active player are all offered for a Jack when no marble of another
\* player qualifies (on the track and not safe), and none of them is offered
\* when one qualifies.
C32_JackFallback ==
    state.bool_card_exchanged =>
        /\ ~OpponentQualifies => OwnSwaps \subseteq JackOffers
        /\ OpponentQualifies => OwnSwaps \cap JackOffers = {}

\* C33: in every state reached from a fresh game by apply_action calls with
\* None or an action of get_list_action, each marble of player i stands in
\* the player's own kennel 64 + 8i .. 64 + 8i + 3, on the track 0 .. 63 or in
\* the player's own finish lane 68 + 8i .. 68 + 8i + 3.  The position -1 of a
\* marble that has not moved since construction is let pass as the kennel
\* here (C3 is about it), so that a violation is a marble that was moved off
\* its owner's squares.
C33_MarblePositions ==
    \A id \in AllMarbles :
        \/ MarbleAt(state, id).pos = -1
        \/ MarbleAt(state, id).pos \in (64 + 8 * id[1])..(64 + 8 * id[1] + 3)
        \/ MarbleAt(state, id).pos \in 0..63
        \/ MarbleAt(state, id).pos \in (68 + 8 * id[1])..(68 + 8 * id[1] + 3)

\* The last call was given an action that does not fit the state: its card is
\* not in the active hand, or it moves from a track square on which no marble
\* of the active player stands
InvalidCall ==
    /\ last_op' = "apply_action"
    /\ last_action' # NoneAction
    /\ \/ ~Contains(ActiveHand, last_action'.card)
       \/ /\ state.bool_card_exchanged
          /\ last_action'.pos_from \in 0..63
          /\ last_action'.pos_to # NoPos
          /\ \A m \in Marbles :
                 state.list_player[state.idx_player_active].list_marble[m].pos #
                     last_action'.pos_from

\* C34: apply_action with a move from a square that holds no marble of the
\* active player, with a card that is not in the active hand, or with an
\* exchange card that is not in the hand raises an error and leaves the game
\* state (active player, hands, piles, marbles) unchanged.
C34_InvalidActions ==
    [][InvalidCall => exc' # "none" /\ state' = state]_vars

\* The set of the actions in a list
ActionSet(actions) == { actions[i] : i \in 1..Len(actions) }

\* C35: a call of get_list_action leaves every field of the game state as it
\* was and raises nothing, and a second call right after the first returns
\* the same set of actions.
C35_PureRead ==
    [][last_op' = "get_list_action" =>
          /\ state' = state
          /\ exc' = "none"
          /\ last_op = "get_list_action" =>
                 ActionSet(dog'.result) = ActionSet(dog.result)]_vars

\* get_list_action was called twice in a row after an apply_action call, in
\* play, and returned actions
C35_Witness ==
    /\ last_op = "get_list_action"
    /\ checks = 2
    /\ calls_left = MaxReadCalls - 3
    /\ state.bool_card_exchanged
    /\ dog.result # <<>>

\* The last call applied an action that get_list_action returned for the
\* state it was applied to, a state of a running game
ListedApplied ==
    /\ last_op' = "apply_action"
    /\ last_action' # NoneAction
    /\ state.phase = "running"
    /\ Contains(get_list_action(state), last_action')

\* C36: in a running game apply_action with an action that get_list_action
\* returns completes without raising an error.
C36_ListedApplicable ==
    [][ListedApplied => exc' = "none"]_vars

\* All marbles but `moved` and those that stood on pos_to keep their position
\* over the last call
OthersStay(moved) ==
    \A id \in AllMarbles \ {moved} :
        MarbleAt(state, id).pos # last_action'.pos_to =>
            MarbleAt(state', id).pos = MarbleAt(state, id).pos

\* C37: applying a start or numbered move changes the position of no marble
\* but the one moved from pos_from and a marble that stood on the
\* destination; no other marble of player 0 is relocated when player 0 moves.
C37_MoveFrame ==
    [][MoveApplied =>
          \E m \in Marbles :
              /\ StandsAt(state, m, last_action'.pos_from)
              /\ OthersStay(<<state.idx_player_active, m>>)]_vars

\* C38: in every state reached from a fresh game by apply_action calls with
\* None or an action of get_list_action, no two marbles stand on the same
\* square of the track 0 .. 63.
C38_TrackExclusive ==
    \A id1 \in AllMarbles : \A id2 \in AllMarbles \ {id1} :
        MarbleAt(state, id1).pos \in 0..63 =>
            MarbleAt(state, id1).pos # MarbleAt(state, id2).pos

\* The last call dealt a round: it returned normally with a higher cnt_round
RoundDealt ==
    /\ last_op' = "apply_action"
    /\ exc' = "none"
    /\ state'.cnt_round = state.cnt_round + 1

\* C39: right after a call has dealt a round, idx_player_active equals
\* idx_player_started, so that the round's starting player acts first.
C39_RoundStart ==
    [][RoundDealt => state'.idx_player_active = state'.idx_player_started]_vars

\* C40: once phase is finished, no call of apply_action, get_list_action or
\* check_for_game_winner sets it to another value.
C40_FinishedStable ==
    [][state.phase = "finished" => state'.phase = "finished"]_vars

\* A fold was applied to a finished game, which is still finished
C40_Witness ==
    /\ state.phase = "finished"
    /\ last_op = "apply_action"
    /\ last_action = NoneAction


====
